---- MODULE Spec2Model ----
(***************************************************************************)
(* Model of the academy team-assignment engine of rematch_hq_bot           *)
(* (src/rematch_hq_bot/academy.py): roster normalisation, the feasibility  *)
(* bound, the min-cost-flow solver run for k = 1, 2, ... and the assembly  *)
(* of the teams.                                                           *)
(*                                                                         *)
(* Usernames are modelled as pairs <<id, spelling>>.  The id stands for    *)
(* the case-folded text (ids are ordered as the folded strings are), the   *)
(* spelling says how the text is written: "lower" (bob), "upper" (Bob) or  *)
(* "padded" (the lower spelling with surrounding / doubled whitespace).    *)
(* Id 0 is the text that consists of whitespace only.                      *)
(*                                                                         *)
(* Raw tier values are pairs <<kind, n>>: an int n, a numeric string "n",  *)
(* a non-numeric string, None, a float NaN or a float infinity.            *)
(***************************************************************************)
EXTENDS Integers, Sequences, FiniteSets, TLC

VARIABLES
    file,           \* content of players.yaml when the run starts from the file: sequence of <<role label, items>>
    run,            \* 1 for the first call of generate_teams, 2 for a repeated call
    firstTeams,     \* what the first call returned, kept for the repeated call
    academy,        \* argument of generate_teams: role -> ordered dict, as a sequence of <<username, raw tier>>
    hashOrder,      \* ids whose "upper" spelling precedes the "lower" one when a set of str is iterated
    pc,             \* position inside generate_teams
    normalized,     \* role -> ordered dict (sequence of <<username, tier>>)
    all_users,      \* set of usernames over all roles
    upper_k,        \* feasibility bound
    k,              \* loop variable of the team-count search
    players,        \* usernames in node order, local of the current _min_cost_flow call
    g,              \* adjacency lists of the residual network of the current _min_cost_flow call
    flow,           \* units pushed so far in the current call
    potential,      \* vertex potentials of the current call
    best_k,
    best_assigned,  \* role -> list of <<username, tier>> of the last successful k
    teams,          \* the returned list
    solverCalls,    \* number of _min_cost_flow invocations so far (history)
    augmentations,  \* number of augmentations of the current _min_cost_flow call so far (history)
    calls,          \* the calls of register_player, unregister_player and create_teams_from_file in progress
    cpc,            \* call -> position inside its coroutine
    local,          \* call -> its local variable academy
    lock,           \* holder of _ACADEMY_LOCK, 0 when it is free
    acquired,       \* the calls in the order in which they acquired the lock (history)
    file0,          \* content of players.yaml before the first call (history)
    teamsFile,      \* content of teams.yaml
    snapshot,       \* call -> content of players.yaml when the call acquired the lock (history)
    result          \* call -> what the call returned

\* The state of the calls that go through _ACADEMY_LOCK.
callVars == <<calls, cpc, local, lock, acquired, file0, teamsFile, snapshot, result>>

\* The state of one generate_teams call.
engineVars == <<run, firstTeams, academy, hashOrder, pc, normalized, all_users, upper_k, k, players, g, flow,
                potential, best_k, best_assigned, teams, solverCalls, augmentations>>

vars == <<file, run, firstTeams, academy, hashOrder, pc, normalized, all_users, upper_k, k, players, g, flow,
          potential, best_k, best_assigned, teams, solverCalls, augmentations,
          calls, cpc, local, lock, acquired, file0, teamsFile, snapshot, result>>

----------------------------------------------------------------------------
(* Constants of the program *)

ROLES == <<"Goalkeeper", "Main Defender", "Second Defender", "Second Striker", "Main Striker">>

RoleSet == {ROLES[i] : i \in 1..Len(ROLES)}

DefaultTier == 3

\* 10**18 in the source; any value above every path length acts the same.
INF == 1000000

Empty == <<0, "lower">>

----------------------------------------------------------------------------
(* Strings *)

\* " ".join(username.strip().split()): whitespace is trimmed and collapsed,
\* letter case is kept.
NormalizeUsername(u) ==
    IF u[1] = 0 THEN Empty
    ELSE IF u[2] = "padded" THEN <<u[1], "lower">> ELSE u

\* str.casefold(), as the sort key it is used for.
Casefold(u) == u[1]

\* int(t) inside try/except (TypeError, ValueError): the conversion raises
\* OverflowError, which is not caught, for a float infinity.
IntRaises(t) == t[1] = "inf"

IntOrDefault(t) == IF t[1] \in {"int", "str"} THEN t[2] ELSE DefaultTier

----------------------------------------------------------------------------
(* Ordered dicts, as sequences of <<key, value>> with unique keys *)

DictKeys(d) == {d[i][1] : i \in DOMAIN d}

\* d[key] = val: an existing key keeps its position, a new key is appended.
DictSet(d, key, val) ==
    IF key \in DictKeys(d)
    THEN [i \in DOMAIN d |-> IF d[i][1] = key THEN <<key, val>> ELSE d[i]]
    ELSE Append(d, <<key, val>>)

\* d[key], for a key of d.
DictGet(d, key) == d[CHOOSE i \in DOMAIN d : d[i][1] = key][2]

\* d.pop(key, None)
DictPop(d, key) == SelectSeq(d, LAMBDA e : e[1] # key)

----------------------------------------------------------------------------
(* load_academy, for a file in the role-first format.  The file is a        *)
(* sequence of <<role label, items>>; a role label is <<i, spelling>> with  *)
(* i the position of the role it names in ROLES (in any letter case and     *)
(* spacing) or 0 when it names no role.                                     *)

NoRole == "none"

\* _role_key
RoleKey(label) == IF label[1] \in 1..Len(ROLES) THEN ROLES[label[1]] ELSE NoRole

\* Lines 97-116: the role_map of one role.
RECURSIVE LoadRoleMap(_, _, _)
LoadRoleMap(items, i, acc) ==
    IF i > Len(items) THEN acc
    ELSE LET username == NormalizeUsername(items[i][1])
         IN IF username = Empty
            THEN LoadRoleMap(items, i + 1, acc)
            ELSE LoadRoleMap(items, i + 1,
                             DictSet(acc, username, IntOrDefault(items[i][2])))

IsNewStyle(f) == \E i \in DOMAIN f : RoleKey(f[i][1]) # NoRole

\* The loop over the labels ends at the first label that names no role.
RECURSIVE LoadRolesUntilUnknown(_, _, _)
LoadRolesUntilUnknown(f, i, out) ==
    IF i > Len(f) THEN out
    ELSE IF RoleKey(f[i][1]) = NoRole THEN out
    ELSE LoadRolesUntilUnknown(f, i + 1,
                   [out EXCEPT ![RoleKey(f[i][1])] = LoadRoleMap(f[i][2], 1, <<>>)])

\* Lines 87-120: out[role] = role_map for every recognised label, in file order.
RECURSIVE LoadRoles(_, _, _)
LoadRoles(f, i, out) ==
    IF i > Len(f) THEN out
    ELSE IF RoleKey(f[i][1]) = NoRole THEN LoadRoles(f, i + 1, out)
    ELSE LoadRoles(f, i + 1,
                   [out EXCEPT ![RoleKey(f[i][1])] = LoadRoleMap(f[i][2], 1, <<>>)])

\* The roster load_academy returns, for a file it does not raise on.  A
\* file without any role label is read as a legacy stream, which finds no
\* registration in it.
LoadAcademy(f) ==
    IF f = <<>> \/ ~IsNewStyle(f) THEN [r \in RoleSet |-> <<>>]
    ELSE LoadRoles(f, 1, [r \in RoleSet |-> <<>>])

\* int(tier_raw) raises an exception the except clause does not name.
LoadRaises(f) ==
    /\ IsNewStyle(f)
    /\ \E i \in DOMAIN f :
          /\ RoleKey(f[i][1]) # NoRole
          /\ \E j \in DOMAIN f[i][2] :
                NormalizeUsername(f[i][2][j][1]) # Empty /\ IntRaises(f[i][2][j][2])

----------------------------------------------------------------------------
(* generate_teams: normalisation and bounds *)

RECURSIVE NormalizeUsers(_, _, _)
NormalizeUsers(users, i, acc) ==
    IF i > Len(users) THEN acc
    ELSE LET username == NormalizeUsername(users[i][1])
         IN IF username = Empty
            THEN NormalizeUsers(users, i + 1, acc)
            ELSE NormalizeUsers(users, i + 1,
                                DictSet(acc, username, IntOrDefault(users[i][2])))

\* A role without entries takes over the entries of the first role.
NormalizeAcademyFallback(a) ==
    [r \in RoleSet |->
        NormalizeUsers(IF a[r] = <<>> THEN a[ROLES[1]] ELSE a[r], 1, <<>>)]

NormalizeAcademy(a) == [r \in RoleSet |-> NormalizeUsers(a[r], 1, <<>>)]

\* Some tier of an entry that is not skipped cannot be converted.
NormalizeRaises(a) ==
    \E r \in RoleSet : \E i \in DOMAIN a[r] :
        NormalizeUsername(a[r][i][1]) # Empty /\ IntRaises(a[r][i][2])

AllUsers(norm) == UNION {DictKeys(norm[r]) : r \in RoleSet}

Min2(a, b) == IF a < b THEN a ELSE b

MinOverRoles(norm) ==
    CHOOSE m \in {Len(norm[r]) : r \in RoleSet} :
        \A r \in RoleSet : m <= Len(norm[r])

\* The bound by the number of distinct players is left out.
UpperKByRoleOnly(norm) == MinOverRoles(norm)

UpperK(norm) ==
    Min2(Cardinality(AllUsers(norm)) \div Len(ROLES), MinOverRoles(norm))

\* The search stops one short of the bound.
SearchRangeOffByOne(uk) == 1..(uk - 1)

\* for k in range(1, upper_k + 1)
SearchRange(uk) == 1..uk

----------------------------------------------------------------------------
(* Sorting *)

\* list.sort / sorted are stable: an element goes behind every element whose
\* key is not greater.  The sequences sorted here hold <<key1, key2, item>>,
\* compared as the tuples (key1, key2) are.
KeyLessEq(x, y) == x[1] < y[1] \/ (x[1] = y[1] /\ x[2] <= y[2])

RECURSIVE InsertSorted(_, _)
InsertSorted(s, x) ==
    IF s = <<>> THEN <<x>>
    ELSE IF KeyLessEq(s[Len(s)], x) THEN Append(s, x)
    ELSE Append(InsertSorted(SubSeq(s, 1, Len(s) - 1), x), s[Len(s)])

RECURSIVE SortedKeyed(_, _)
SortedKeyed(s, n) ==
    IF n = 0 THEN <<>>
    ELSE InsertSorted(SortedKeyed(s, n - 1), s[n])

Items(s) == [i \in DOMAIN s |-> s[i][3]]

\* Iteration order of a set of usernames, where only the relative order of
\* usernames with the same case-folded text can show after sorting: it is
\* fixed by the string hashes of the process.
HashBefore(u, v) ==
    IF Casefold(u) # Casefold(v) THEN Casefold(u) < Casefold(v)
    ELSE IF u[2] = v[2] THEN TRUE
    ELSE IF Casefold(u) \in hashOrder THEN u[2] = "upper" ELSE u[2] = "lower"

RECURSIVE SetIteration(_)
SetIteration(S) ==
    IF S = {} THEN <<>>
    ELSE LET u == CHOOSE x \in S : \A y \in S : HashBefore(x, y)
         IN <<u>> \o SetIteration(S \ {u})

\* The order of equal keys changes from one call to the next.
SortedPlayersPerCall(S) ==
    LET it0 == SetIteration(S)
        it == IF run = 1 THEN it0 ELSE [i \in DOMAIN it0 |-> it0[Len(it0) + 1 - i]]
        keyed == [i \in DOMAIN it |-> <<Casefold(it[i]), 0, it[i]>>]
    IN Items(SortedKeyed(keyed, Len(keyed)))

\* sorted(all_users, key=lambda s: s.casefold())
SortedPlayers(S) ==
    LET it == SetIteration(S)
        keyed == [i \in DOMAIN it |-> <<Casefold(it[i]), 0, it[i]>>]
    IN Items(SortedKeyed(keyed, Len(keyed)))

\* The picks stay in the order of the extraction.
SortedPicksAsExtracted(picks) == picks

\* picks.sort(key=lambda x: (x[1], x[0].casefold()))
SortedPicks(picks) ==
    LET keyed == [i \in DOMAIN picks |-> <<picks[i][2], Casefold(picks[i][1]), picks[i]>>]
    IN Items(SortedKeyed(keyed, Len(keyed)))

----------------------------------------------------------------------------
(* _min_cost_flow: the network *)

source == 0
player_offset == 1 + Len(ROLES)

RoleIdx(r) == CHOOSE i \in 1..Len(ROLES) : ROLES[i] = r

\* Player nodes are numbered from the end of the sorted list.
PlayerIdxReversed(ps, u) ==
    player_offset + Len(ps) - (CHOOSE i \in 1..Len(ps) : ps[i] = u)

PlayerIdx(ps, u) ==
    player_offset + (CHOOSE i \in 1..Len(ps) : ps[i] = u) - 1

Sink(ps) == player_offset + Len(ps)

\* _add_edge: the forward edge and its reverse twin; rev is the (1-based)
\* position of the twin in the other node's list.
AddEdge(gr, fr, to, cap, cost) ==
    LET g1 == [gr EXCEPT ![fr] = Append(@, [to |-> to, rev |-> Len(gr[to]) + 1,
                                            cap |-> cap, cost |-> cost])]
    IN [g1 EXCEPT ![to] = Append(@, [to |-> fr, rev |-> Len(g1[fr]),
                                     cap |-> 0, cost |-> 0 - cost])]

RECURSIVE AddSourceEdges(_, _, _)
AddSourceEdges(gr, i, kk) ==
    IF i > Len(ROLES) THEN gr
    ELSE AddSourceEdges(AddEdge(gr, source, i, kk, 0), i + 1, kk)

RECURSIVE AddRoleEdges(_, _, _, _, _)
AddRoleEdges(gr, norm, ps, i, j) ==
    IF i > Len(ROLES) THEN gr
    ELSE IF j > Len(norm[ROLES[i]]) THEN AddRoleEdges(gr, norm, ps, i + 1, 1)
    ELSE LET e == norm[ROLES[i]][j]
         IN AddRoleEdges(AddEdge(gr, i, PlayerIdx(ps, e[1]), 1, e[2]),
                         norm, ps, i, j + 1)

\* Every player may take two units of flow.
RECURSIVE AddSinkEdgesCap2(_, _, _)
AddSinkEdgesCap2(gr, ps, i) ==
    IF i > Len(ps) THEN gr
    ELSE AddSinkEdgesCap2(AddEdge(gr, player_offset + i - 1, Sink(ps), 2, 0), ps, i + 1)

RECURSIVE AddSinkEdges(_, _, _)
AddSinkEdges(gr, ps, i) ==
    IF i > Len(ps) THEN gr
    ELSE AddSinkEdges(AddEdge(gr, player_offset + i - 1, Sink(ps), 1, 0),
                      ps, i + 1)

BuildNetwork(norm, ps, kk) ==
    LET g0 == [v \in 0..Sink(ps) |-> <<>>]
    IN AddSinkEdges(AddRoleEdges(AddSourceEdges(g0, 1, kk), norm, ps, 1, 1),
                    ps, 1)

----------------------------------------------------------------------------
(* _min_cost_flow: one shortest-path round *)

\* heapq.heappop on a heap of (d, v) tuples: the smallest tuple.
HeapMin(pq) ==
    CHOOSE p \in pq : \A q \in pq : p[1] < q[1] \/ (p[1] = q[1] /\ p[2] <= q[2])

\* The path length counts edges instead of costs.
NewDistHops(d, e, pot, v) == d + 1

\* nd = d + e.cost + potential[v] - potential[e.to]
NewDist(d, e, pot, v) == d + e.cost + pot[v] - pot[e.to]

RECURSIVE RelaxEdges(_, _, _, _, _, _)
RelaxEdges(st, gr, pot, v, d, ei) ==
    IF ei > Len(gr[v]) THEN st
    ELSE LET e  == gr[v][ei]
             nd == NewDist(d, e, pot, v)
         IN IF e.cap <= 0 \/ ~(nd < st.dist[e.to])
            THEN RelaxEdges(st, gr, pot, v, d, ei + 1)
            ELSE RelaxEdges([dist   |-> [st.dist EXCEPT ![e.to] = nd],
                             prev_v |-> [st.prev_v EXCEPT ![e.to] = v],
                             prev_e |-> [st.prev_e EXCEPT ![e.to] = ei],
                             pq     |-> st.pq \cup {<<nd, e.to>>}],
                            gr, pot, v, d, ei + 1)

RECURSIVE DijkstraLoop(_, _, _)
DijkstraLoop(st, gr, pot) ==
    IF st.pq = {} THEN st
    ELSE LET top  == HeapMin(st.pq)
             rest == [st EXCEPT !.pq = @ \ {top}]
         IN IF top[1] # st.dist[top[2]]
            THEN DijkstraLoop(rest, gr, pot)
            ELSE DijkstraLoop(RelaxEdges(rest, gr, pot, top[2], top[1], 1), gr, pot)

Dijkstra(gr, pot) ==
    DijkstraLoop([dist   |-> [v \in DOMAIN gr |-> IF v = source THEN 0 ELSE INF],
                  prev_v |-> [v \in DOMAIN gr |-> 0],
                  prev_e |-> [v \in DOMAIN gr |-> 0],
                  pq     |-> {<<0, source>>}],
                 gr, pot)

\* All the missing units are pushed at once.
BottleneckIgnored(gr, st, v, add) == add

RECURSIVE Bottleneck(_, _, _, _)
Bottleneck(gr, st, v, add) ==
    IF v = source THEN add
    ELSE Bottleneck(gr, st, st.prev_v[v], Min2(add, gr[st.prev_v[v]][st.prev_e[v]].cap))

\* Only the forward edges of the path change; the reverse twins stay.
RECURSIVE PushFlowForwardOnly(_, _, _, _)
PushFlowForwardOnly(gr, st, v, add) ==
    IF v = source THEN gr
    ELSE LET pv == st.prev_v[v]
             pe == st.prev_e[v]
         IN PushFlowForwardOnly([gr EXCEPT ![pv][pe].cap = @ - add], st, pv, add)

RECURSIVE PushFlow(_, _, _, _)
PushFlow(gr, st, v, add) ==
    IF v = source THEN gr
    ELSE LET pv == st.prev_v[v]
             pe == st.prev_e[v]
             e  == gr[pv][pe]
             g1 == [gr EXCEPT ![pv][pe].cap = @ - add]
         IN PushFlow([g1 EXCEPT ![v][e.rev].cap = @ + add], st, pv, add)

\* The potentials stay as they are.
UpdatePotentialSkipped(pot, dist) == pot

UpdatePotential(pot, dist) ==
    [v \in DOMAIN pot |-> IF dist[v] < INF THEN pot[v] + dist[v] ELSE pot[v]]

\* need = len(ROLES) * k
Need(kk) == Len(ROLES) * kk

\* One iteration of "while flow < need" (lines 403-448) on the network gr:
\* either the loop breaks because the sink is out of reach, or the
\* potentials are updated and add units are pushed along the path found.
RoundStep(gr, pot, fl, need, ps) ==
    LET st   == Dijkstra(gr, pot)
        sink == Sink(ps)
    IN IF st.dist[sink] >= INF
       THEN [broke |-> TRUE, g |-> gr, potential |-> pot, flow |-> fl, add |-> 0]
       ELSE LET add == Bottleneck(gr, st, sink, need - fl)
            IN [broke     |-> FALSE,
                g         |-> PushFlow(gr, st, sink, add),
                potential |-> UpdatePotential(pot, st.dist),
                flow      |-> fl + add,
                add       |-> add]

----------------------------------------------------------------------------
(* _min_cost_flow: extraction *)

RECURSIVE UsedPicks(_, _, _, _)
UsedPicks(edges, ps, ei, acc) ==
    IF ei > Len(edges) THEN acc
    ELSE LET e == edges[ei]
         IN IF /\ e.to >= player_offset
               /\ e.to < Sink(ps)
               /\ e.cost >= 0
               /\ e.cap = 0
            THEN UsedPicks(edges, ps, ei + 1,
                           Append(acc, <<ps[e.to - player_offset + 1], e.cost>>))
            ELSE UsedPicks(edges, ps, ei + 1, acc)

Extract(gr, ps) ==
    [r \in RoleSet |-> UsedPicks(gr[RoleIdx(r)], ps, 1, <<>>)]

----------------------------------------------------------------------------
(* generate_teams: assembling the teams *)

\* Team i takes the entry at position bk + 1 - i of each role.
BuildTeamsBackwards(assigned, bk) ==
    LET sorted == [r \in RoleSet |-> SortedPicks(assigned[r])]
    IN [i \in 1..bk |-> [r \in RoleSet |-> sorted[r][bk + 1 - i]]]

\* Lines 486-498: sort each role's picks, then team i takes the i-th pick of
\* every role.
BuildTeams(assigned, bk) ==
    LET sorted == [r \in RoleSet |-> SortedPicks(assigned[r])]
    IN [i \in 1..bk |-> [r \in RoleSet |-> sorted[r][i]]]

----------------------------------------------------------------------------
(* generate_teams as a function of its argument, composed of the steps above *)

RECURSIVE FlowLoop(_, _, _, _, _)
FlowLoop(gr, pot, fl, need, ps) ==
    IF ~(fl < need) THEN [g |-> gr, flow |-> fl]
    ELSE LET r == RoundStep(gr, pot, fl, need, ps)
         IN IF r.broke THEN [g |-> gr, flow |-> fl]
            ELSE FlowLoop(r.g, r.potential, r.flow, need, ps)

\* _min_cost_flow(k): <<ok, assigned>>
MinCostFlow(norm, ps, kk) ==
    LET end == FlowLoop(BuildNetwork(norm, ps, kk), [v \in 0..Sink(ps) |-> 0],
                        0, Need(kk), ps)
        assigned == Extract(end.g, ps)
    IN IF end.flow # Need(kk) THEN <<FALSE, [r \in RoleSet |-> <<>>]>>
       ELSE IF \E r \in RoleSet : Len(assigned[r]) # kk
            THEN <<FALSE, [r \in RoleSet |-> <<>>]>>
            ELSE <<TRUE, assigned>>

RECURSIVE SearchFrom(_, _, _, _, _, _)
SearchFrom(norm, ps, uk, kk, bk, bassigned) ==
    IF kk \notin SearchRange(uk) THEN <<bk, bassigned>>
    ELSE LET res == MinCostFlow(norm, ps, kk)
         IN IF ~res[1] THEN <<bk, bassigned>>
            ELSE SearchFrom(norm, ps, uk, kk + 1, kk, res[2])

\* The value generate_teams returns, for an argument it does not raise on.
GenerateTeams(a) ==
    LET norm == NormalizeAcademy(a)
        uk   == UpperK(norm)
    IN IF AllUsers(norm) = {} \/ uk <= 0 THEN <<>>
       ELSE LET best == SearchFrom(norm, SortedPlayers(AllUsers(norm)), uk, 1, 0,
                                   [r \in RoleSet |-> <<>>])
            IN IF best[1] <= 0 THEN <<>> ELSE BuildTeams(best[2], best[1])

----------------------------------------------------------------------------
(* _best_team_assignment: branch and bound for one team *)

\* Lines 246-260: the candidates of a role, one per entry of the role (a
\* list: two entries with the same normalised username both stay), sorted by
\* (tier, casefold(username)).
RECURSIVE CandidateItems(_, _, _, _)
CandidateItems(role_users, i, banned_users, acc) ==
    IF i > Len(role_users) THEN acc
    ELSE LET username == NormalizeUsername(role_users[i][1])
         IN IF username = Empty \/ username \in banned_users
            THEN CandidateItems(role_users, i + 1, banned_users, acc)
            ELSE CandidateItems(role_users, i + 1, banned_users,
                                Append(acc, <<username, IntOrDefault(role_users[i][2])>>))

Candidates(a, banned_users) ==
    [r \in RoleSet |->
        LET items == CandidateItems(a[r], 1, banned_users, <<>>)
            keyed == [i \in DOMAIN items |-> <<items[i][2], Casefold(items[i][1]), items[i]>>]
        IN Items(SortedKeyed(keyed, Len(keyed)))]

\* sorted(ROLES, key=lambda r: len(candidates[r]))
RoleOrder(candidates) ==
    LET keyed == [i \in DOMAIN ROLES |-> <<Len(candidates[ROLES[i]]), 0, ROLES[i]>>]
    IN Items(SortedKeyed(keyed, Len(keyed)))

\* lower_bound: the score plus the tier of the first unused candidate of
\* every role from position i on; -1 when a role has none.
RECURSIVE LowerBound(_, _, _, _, _)
LowerBound(candidates, role_order, i, used, score) ==
    IF i > Len(role_order) THEN score
    ELSE LET free == SelectSeq(candidates[role_order[i]], LAMBDA c : c[1] \notin used)
         IN IF free = <<>> THEN 0 - 1
            ELSE LowerBound(candidates, role_order, i + 1, used, score + free[1][2])

NoBest == [best_score |-> INF, found |-> FALSE, best |-> [r \in RoleSet |-> <<Empty, 0>>]]

\* dfs, and the loop over the candidates of role_order[i] from position j
\* on; st holds best_score and best.
RECURSIVE Dfs(_, _, _, _, _, _, _)
RECURSIVE DfsLoop(_, _, _, _, _, _, _, _)
Dfs(candidates, role_order, i, used, score, cur, st) ==
    IF i > Len(role_order)
    THEN IF score < st.best_score
         THEN [best_score |-> score, found |-> TRUE, best |-> cur]
         ELSE st
    ELSE LET lb == LowerBound(candidates, role_order, i, used, score)
         IN IF lb < 0 \/ lb >= st.best_score THEN st
            ELSE DfsLoop(candidates, role_order, i, used, score, cur, st, 1)

DfsLoop(candidates, role_order, i, used, score, cur, st, j) ==
    LET role == role_order[i]
    IN IF j > Len(candidates[role]) THEN st
       ELSE LET c == candidates[role][j]
            IN IF c[1] \in used
               THEN DfsLoop(candidates, role_order, i, used, score, cur, st, j + 1)
               ELSE DfsLoop(candidates, role_order, i, used, score, cur,
                            Dfs(candidates, role_order, i + 1, used \cup {c[1]},
                                score + c[2], [cur EXCEPT ![role] = c], st),
                            j + 1)

\* The value _best_team_assignment returns: found is FALSE for None.
BestTeamAssignment(a, banned_users) ==
    LET candidates == Candidates(a, banned_users)
    IN IF \E r \in RoleSet : candidates[r] = <<>> THEN NoBest
       ELSE Dfs(candidates, RoleOrder(candidates), 1, {}, 0, NoBest.best, NoBest)

----------------------------------------------------------------------------
(* Bounds of the model *)

MaxTier == 2

MaxDepth == 3

Tiers == 1..MaxTier

NoAssigned == [r \in RoleSet |-> <<>>]
NoGraph == <<>>

----------------------------------------------------------------------------
(* Actions of generate_teams *)

\* Lines 331-355: normalise, compute the bound, return [] at once when it is 0.
Normalize ==
    /\ pc = "start"
    /\ IF NormalizeRaises(academy)
       THEN /\ pc' = "raised"
            /\ UNCHANGED <<normalized, all_users, upper_k, k, teams>>
       ELSE LET norm == NormalizeAcademy(academy)
                uk   == UpperK(norm)
            IN /\ normalized' = norm
               /\ all_users' = AllUsers(norm)
               /\ IF AllUsers(norm) = {}
                  THEN /\ pc' = "done" /\ teams' = <<>> /\ UNCHANGED <<upper_k, k>>
                  ELSE /\ upper_k' = uk
                       /\ IF uk <= 0
                          THEN pc' = "done" /\ teams' = <<>> /\ UNCHANGED k
                          ELSE pc' = "search" /\ k' = 1 /\ UNCHANGED teams
    /\ UNCHANGED <<file, run, firstTeams, academy, hashOrder, players, g, flow, potential, best_k, best_assigned, solverCalls, augmentations>>
    /\ UNCHANGED callVars

\* Only the first _min_cost_flow call builds a network, the later calls go on
\* with the network the call before left.
StartFlowOnUsedNetwork ==
    /\ pc = "search"
    /\ k \in SearchRange(upper_k)
    /\ LET ps == SortedPlayers(all_users)
       IN /\ players' = ps
          /\ g' = IF solverCalls = 0 THEN BuildNetwork(normalized, ps, k) ELSE g
          /\ potential' = [v \in 0..Sink(ps) |-> 0]
    /\ flow' = 0
    /\ solverCalls' = solverCalls + 1
    /\ augmentations' = 0
    /\ pc' = "flow"
    /\ UNCHANGED <<file, run, firstTeams, academy, hashOrder, normalized, all_users, upper_k, k, best_k,
                   best_assigned, teams>>
    /\ UNCHANGED callVars

\* Lines 476-477 and 374-401: the loop takes the next k and _min_cost_flow(k)
\* builds its network.
StartFlow ==
    /\ pc = "search"
    /\ k \in SearchRange(upper_k)
    /\ LET ps == SortedPlayers(all_users)
       IN /\ players' = ps
          /\ g' = BuildNetwork(normalized, ps, k)
          /\ potential' = [v \in 0..Sink(ps) |-> 0]
    /\ flow' = 0
    /\ solverCalls' = solverCalls + 1
    /\ augmentations' = 0
    /\ pc' = "flow"
    /\ UNCHANGED <<file, run, firstTeams, academy, hashOrder, normalized, all_users, upper_k, k, best_k,
                   best_assigned, teams>>
    /\ UNCHANGED callVars

\* Lines 403-448: one iteration of the while loop.  When no path reaches the
\* sink the loop breaks, the call returns (False, {}) (lines 450-451) and the
\* search stops (lines 478-479); otherwise the potentials are updated and the
\* path is augmented.
Round ==
    /\ pc = "flow"
    /\ flow < Need(k)
    /\ LET r == RoundStep(g, potential, flow, Need(k), players)
       IN /\ pc' = IF r.broke THEN "assemble" ELSE pc
          /\ g' = r.g
          /\ potential' = r.potential
          /\ flow' = r.flow
          /\ augmentations' = IF r.broke THEN augmentations ELSE augmentations + 1
    /\ UNCHANGED <<file, run, firstTeams, academy, hashOrder, normalized, all_users, upper_k, k, players,
                   best_k, best_assigned, teams, solverCalls>>
    /\ UNCHANGED callVars

\* Lines 450-471 and 477-481: the flow is complete; extract the picks, check
\* that every role has k of them and record the result.
FinishFlow ==
    /\ pc = "flow"
    /\ ~(flow < Need(k))
    /\ IF flow # Need(k)
       THEN pc' = "assemble" /\ UNCHANGED <<k, best_k, best_assigned>>
       ELSE LET assigned == Extract(g, players)
            IN IF \E r \in RoleSet : Len(assigned[r]) # k
               THEN pc' = "assemble" /\ UNCHANGED <<k, best_k, best_assigned>>
               ELSE /\ best_k' = k
                    /\ best_assigned' = assigned
                    /\ k' = k + 1
                    /\ pc' = "search"
    /\ UNCHANGED <<file, run, firstTeams, academy, hashOrder, normalized, all_users, upper_k, players, g, flow,
                   potential, teams, solverCalls, augmentations>>
    /\ UNCHANGED callVars

\* Line 476: the range is exhausted.
SearchEnd ==
    /\ pc = "search"
    /\ k \notin SearchRange(upper_k)
    /\ pc' = "assemble"
    /\ UNCHANGED <<file, run, firstTeams, academy, hashOrder, normalized, all_users, upper_k, k, players, g, flow,
                   potential, best_k, best_assigned, teams, solverCalls, augmentations>>
    /\ UNCHANGED callVars

\* The normalised roster is written back into the argument.
AssembleInPlace ==
    /\ pc = "assemble"
    /\ teams' = IF best_k <= 0 THEN <<>> ELSE BuildTeams(best_assigned, best_k)
    /\ pc' = "done"
    /\ academy' = [r \in RoleSet |->
                      [i \in DOMAIN normalized[r] |->
                          <<normalized[r][i][1], <<"int", normalized[r][i][2]>> >>]]
    /\ UNCHANGED <<file, run, firstTeams, hashOrder, normalized, all_users, upper_k, k, players, g, flow,
                   potential, best_k, best_assigned, solverCalls, augmentations>>
    /\ UNCHANGED callVars

\* Lines 483-498.
Assemble ==
    /\ pc = "assemble"
    /\ teams' = IF best_k <= 0 THEN <<>> ELSE BuildTeams(best_assigned, best_k)
    /\ pc' = "done"
    /\ UNCHANGED <<file, run, firstTeams, academy, hashOrder, normalized, all_users, upper_k, k, players, g, flow,
                   potential, best_k, best_assigned, solverCalls, augmentations>>
    /\ UNCHANGED callVars

\* create_teams_from_file, line 526: academy = load_academy(players_path).
Load ==
    /\ pc = "load"
    /\ IF LoadRaises(file)
       THEN pc' = "raised" /\ UNCHANGED academy
       ELSE /\ pc' = "start"
            /\ academy' = [r \in RoleSet |->
                              [i \in DOMAIN LoadAcademy(file)[r] |->
                                  <<LoadAcademy(file)[r][i][1],
                                    <<"int", LoadAcademy(file)[r][i][2]>> >>]]
    /\ UNCHANGED <<file, run, firstTeams, hashOrder, normalized, all_users, upper_k, k,
                   players, g, flow, potential, best_k, best_assigned, teams, solverCalls, augmentations>>
    /\ UNCHANGED callVars

\* The caller calls generate_teams once more with the same argument.
CallAgain ==
    /\ pc = "done"
    /\ run = 1
    /\ run' = 2
    /\ firstTeams' = teams
    /\ pc' = "start"
    /\ normalized' = NoAssigned
    /\ all_users' = {}
    /\ upper_k' = 0
    /\ k' = 0
    /\ players' = <<>>
    /\ g' = NoGraph
    /\ flow' = 0
    /\ potential' = <<>>
    /\ best_k' = 0
    /\ best_assigned' = NoAssigned
    /\ teams' = <<>>
    /\ solverCalls' = 0
    /\ augmentations' = 0
    /\ UNCHANGED <<file, academy, hashOrder>>
    /\ UNCHANGED callVars

Next == Normalize \/ StartFlow \/ Round \/ FinishFlow \/ SearchEnd \/ Assemble

----------------------------------------------------------------------------
(* Inputs *)

IntTier(n) == <<"int", n>>
Lower(i) == <<i, "lower">>
Upper(i) == <<i, "upper">>

\* Rosters of the model.  Goalkeeper and Main Striker compete for players:
\* Goalkeeper may hold a player of its own (HomeA), Main Striker up to two
\* (HomeB, HomeB2), and each of them may hold the two players PlayerX and
\* PlayerY, with a tier per role (tier 0 stands for "not in the role").
\* PlayerY is either a name of its own or PlayerX written in another letter
\* case.  Each of the three other roles holds d players of its own.
HomeA == Lower(15)
HomeB == Lower(5)
HomeB2 == Lower(35)
PlayerX == Lower(20)
PlayerYOwn == Lower(25)
PlayerYCase == Upper(20)

RestName(i, j) == Lower(10 * j + i)
RestTier(i, j) == 1 + ((i + j) % MaxTier)

Opt(name, t) == IF t = 0 THEN <<>> ELSE << <<name, IntTier(t)>> >>

FamilyRoster(d, hA, hB, hB2, sA, sB, y) ==
    [r \in RoleSet |->
        LET i == RoleIdx(r)
        IN CASE i = 1 -> Opt(HomeA, hA) \o Opt(PlayerX, sA[1]) \o Opt(y, sA[2])
             [] i = Len(ROLES) -> Opt(y, sB[2]) \o Opt(HomeB, hB) \o Opt(PlayerX, sB[1])
                                  \o Opt(HomeB2, hB2)
             [] OTHER -> [j \in 1..d |-> <<RestName(i, j), IntTier(RestTier(i, j))>>]]

HashOrders(y) == IF y = PlayerYCase THEN SUBSET {Casefold(y)} ELSE {{}}

InitLocals ==
    /\ normalized = NoAssigned
    /\ all_users = {}
    /\ upper_k = 0
    /\ k = 0
    /\ players = <<>>
    /\ g = NoGraph
    /\ flow = 0
    /\ potential = <<>>
    /\ best_k = 0
    /\ best_assigned = NoAssigned
    /\ teams = <<>>
    /\ solverCalls = 0
    /\ augmentations = 0
    /\ run = 1
    /\ firstTeams = <<>>

NoTeamsFile == [exists |-> FALSE, blocks |-> <<>>]

\* No call of register_player, unregister_player or create_teams_from_file.
InitNoCalls ==
    /\ calls = <<>>
    /\ cpc = <<>>
    /\ local = <<>>
    /\ lock = 0
    /\ acquired = <<>>
    /\ file0 = <<>>
    /\ teamsFile = NoTeamsFile
    /\ snapshot = <<>>
    /\ result = <<>>

\* generate_teams is called once on a roster with lower-case names.
Init ==
    /\ \E d \in 0..MaxDepth, hA \in {0, 1}, hB \in {0, MaxTier},
          sA, sB \in [1..2 -> 0..MaxTier] :
         academy = FamilyRoster(d, hA, hB, 0, sA, sB, PlayerYOwn)
    /\ hashOrder = {}
    /\ file = <<>>
    /\ pc = "start"
    /\ InitLocals
    /\ InitNoCalls

Spec == Init /\ [][Next]_vars

NextAgain == Next \/ CallAgain

\* generate_teams is called twice on a roster in which PlayerX is registered
\* in two letter cases.
InitFold ==
    /\ \E d \in 1..2, hA, hB, hB2 \in {0, 1}, sA \in [1..2 -> 0..MaxTier],
          sB \in [1..2 -> {0, MaxTier}] :
         academy = FamilyRoster(d, hA, hB, hB2, sA, sB, PlayerYCase)
    /\ hashOrder \in SUBSET {Casefold(PlayerYCase)}
    /\ file = <<>>
    /\ pc = "start"
    /\ InitLocals
    /\ InitNoCalls

SpecFold == InitFold /\ [][NextAgain]_vars

\* Raw input: the Goalkeeper entries are any usernames with any tier values,
\* every other role holds one well-formed entry.  The input is either the
\* content of players.yaml, read by load_academy, or the argument of a direct
\* call of generate_teams.
MaxRawEntries == 2

RawNames == {Lower(1), Upper(1), <<1, "padded">>, <<0, "padded">>}

RawTiers == {<<"int", 1>>, <<"int", 0>>, <<"int", 0 - 1>>, <<"str", 2>>,
             <<"text", 0>>, <<"none", 0>>, <<"nan", 0>>, <<"inf", 0>>}

RawEntryLists ==
    {es \in UNION {[1..n -> RawNames \X RawTiers] : n \in 0..MaxRawEntries} :
        \A i, j \in DOMAIN es : i # j => es[i][1] # es[j][1]}

RawRoster(es) ==
    [r \in RoleSet |->
        IF RoleIdx(r) = 1 THEN es
        ELSE << <<Lower(10 + RoleIdx(r)), IntTier(2)>> >>]

RawFile(es) ==
    [i \in 1..Len(ROLES) |-> <<<<i, "exact">>, RawRoster(es)[ROLES[i]]>>]

NextRaw == Load \/ Next

InitRaw ==
    /\ \E es \in RawEntryLists :
         \/ /\ pc = "load"
            /\ file = RawFile(es)
            /\ academy = [r \in RoleSet |-> <<>>]
         \/ /\ pc = "start"
            /\ file = <<>>
            /\ academy = RawRoster(es)
    /\ hashOrder \in SUBSET {1}
    /\ InitLocals
    /\ InitNoCalls

SpecRaw == InitRaw /\ [][NextRaw]_vars

\* Rosters in which every role holds exactly two players and every entry has
\* the same tier t.  A role holds its own two players, in either entry order,
\* or one player of its own and PairShared, whom other roles may hold too.
PairOwn(i, j) == Lower(10 * j + i)
PairShared == Lower(5)

PairEntries(i, c, t) ==
    CASE c = 0 -> << <<PairOwn(i, 1), IntTier(t)>>, <<PairOwn(i, 2), IntTier(t)>> >>
      [] c = 1 -> << <<PairOwn(i, 2), IntTier(t)>>, <<PairOwn(i, 1), IntTier(t)>> >>
      [] OTHER -> << <<PairOwn(i, 1), IntTier(t)>>, <<PairShared, IntTier(t)>> >>

PairRoster(cs, t) == [r \in RoleSet |-> PairEntries(RoleIdx(r), cs[RoleIdx(r)], t)]

InitPairs ==
    /\ \E cs \in [1..Len(ROLES) -> 0..2], t \in Tiers : academy = PairRoster(cs, t)
    /\ hashOrder = {}
    /\ file = <<>>
    /\ pc = "start"
    /\ InitLocals
    /\ InitNoCalls

SpecPairs == InitPairs /\ [][Next]_vars

\* Rosters with tiers of either sign, as int() lets them through.  PlayerX
\* may be in Goalkeeper and in Main Striker, with any tier from -1 to
\* MaxTier in each; Goalkeeper also holds one or two players of its own,
\* Main Striker one, and each of the three other roles d players of its own.
SignedTiers == (0 - 1)..MaxTier

SignedOptions == {<<FALSE, 0>>} \cup {<<TRUE, t>> : t \in SignedTiers}

SignedOpt(name, o) == IF o[1] THEN << <<name, IntTier(o[2])>> >> ELSE <<>>

SignedRoster(d, xA, xB, q) ==
    [r \in RoleSet |->
        LET i == RoleIdx(r)
        IN CASE i = 1 -> SignedOpt(PlayerX, xA) \o << <<HomeA, IntTier(2)>> >>
                         \o SignedOpt(HomeB2, q)
             [] i = Len(ROLES) -> SignedOpt(PlayerX, xB) \o << <<HomeB, IntTier(1)>> >>
             [] OTHER -> [j \in 1..d |-> <<RestName(i, j), IntTier(2)>>]]

InitSigned ==
    /\ \E d \in 1..(MaxDepth - 1), xA, xB \in SignedOptions,
          q \in {<<FALSE, 0>>, <<TRUE, 2>>} :
         academy = SignedRoster(d, xA, xB, q)
    /\ hashOrder = {}
    /\ file = <<>>
    /\ pc = "start"
    /\ InitLocals
    /\ InitNoCalls

SpecSigned == InitSigned /\ [][Next]_vars

\* Rosters in which PlayerX is registered a second time with blanks around
\* the name, in Goalkeeper and in Main Striker.
PlayerXPadded == <<20, "padded">>

InitPadded ==
    /\ \E d \in 1..2, hA \in {0, 1}, hB \in {0, MaxTier},
          sA, sB \in [1..2 -> 0..MaxTier] :
         academy = FamilyRoster(d, hA, hB, 0, sA, sB, PlayerXPadded)
    /\ hashOrder = {}
    /\ file = <<>>
    /\ pc = "start"
    /\ InitLocals
    /\ InitNoCalls

SpecPadded == InitPadded /\ [][Next]_vars

\* Files with role labels in several spellings and labels that name no
\* role.  The file holds the four roles after Goalkeeper under their exact
\* labels, one player each, before or after up to MaxLabelBlocks further
\* blocks: Goalkeeper in two spellings and two labels that name no role,
\* each with one of three entry lists (a mapping has every label once).
MaxLabelBlocks == 2

Labels == {<<1, "exact">>, <<1, "folded">>, <<0, "exact">>, <<0, "folded">>}

LabelItems ==
    { << <<Lower(1), IntTier(1)>> >>,
      << <<Lower(2), <<"str", 2>> >>, << <<1, "padded">>, <<"none", 0>> >> >>,
      << <<Lower(1), <<"inf", 0>> >> >> }

LabelBlocks ==
    {bs \in UNION {[1..n -> Labels \X LabelItems] : n \in 0..MaxLabelBlocks} :
        \A i, j \in DOMAIN bs : i # j => bs[i][1] # bs[j][1]}

RestFile ==
    [i \in 1..(Len(ROLES) - 1) |->
        << <<i + 1, "exact">>, << <<Lower(11 + i), IntTier(2)>> >> >>]

InitLabels ==
    /\ \E bs \in LabelBlocks : file \in {bs \o RestFile, RestFile \o bs}
    /\ academy = [r \in RoleSet |-> <<>>]
    /\ hashOrder = {}
    /\ pc = "load"
    /\ InitLocals
    /\ InitNoCalls

SpecLabels == InitLabels /\ [][NextRaw]_vars

----------------------------------------------------------------------------
(* save_academy and save_teams *)

\* Lines 146-160: the entries are normalised once more, role by role.
RECURSIVE SaveUsers(_, _, _)
SaveUsers(users, i, acc) ==
    IF i > Len(users) THEN acc
    ELSE LET username == NormalizeUsername(users[i][1])
         IN IF username = Empty
            THEN SaveUsers(users, i + 1, acc)
            ELSE SaveUsers(users, i + 1, DictSet(acc, username, users[i][2]))

\* sorted(users.keys(), key=lambda s: s.casefold())
SortedByCasefold(d) ==
    LET keyed == [i \in DOMAIN d |-> <<Casefold(d[i][1]), 0, d[i]>>]
    IN Items(SortedKeyed(keyed, Len(keyed)))

\* The content of players.yaml after save_academy(a): no file when no role
\* holds a player, else the five roles in the order of ROLES, each with its
\* players in the order of their case-folded usernames.
SaveAcademy(a) ==
    LET norm == [r \in RoleSet |-> SortedByCasefold(SaveUsers(a[r], 1, <<>>))]
    IN IF \A r \in RoleSet : norm[r] = <<>> THEN <<>>
       ELSE [i \in 1..Len(ROLES) |->
                << <<i, "exact">>,
                   [j \in DOMAIN norm[ROLES[i]] |->
                       <<norm[ROLES[i]][j][1], IntTier(norm[ROLES[i]][j][2])>>] >>]

\* Without teams the function returns before it opens the file.
SaveTeamsUnlessEmpty(ts) ==
    IF ts = <<>> THEN teamsFile
    ELSE [exists |-> TRUE,
          blocks |-> [i \in DOMAIN ts |->
                         [r \in RoleSet |->
                             [player |-> ts[i][r][1], tier |-> ts[i][r][2], dash |-> FALSE]]]]

\* The content of teams.yaml after save_teams(ts): one block per team, in
\* which a role shows its player and tier, or "-" without a player.
SaveTeams(ts) ==
    [exists |-> TRUE,
     blocks |-> [i \in DOMAIN ts |->
                    [r \in RoleSet |->
                        IF ts[i][r][1] # Empty
                        THEN [player |-> ts[i][r][1], tier |-> ts[i][r][2], dash |-> FALSE]
                        ELSE [player |-> Empty, tier |-> 0, dash |-> TRUE]]]]

\* The roster load_academy returned, as the argument of generate_teams.
AsArgument(a) ==
    [r \in RoleSet |-> [i \in DOMAIN a[r] |-> <<a[r][i][1], IntTier(a[r][i][2])>>]]

----------------------------------------------------------------------------
(* register_player, unregister_player and create_teams_from_file.  A call   *)
(* is a record of its arguments; the calls are coroutines that may be       *)
(* switched at every statement, and _ACADEMY_LOCK orders them.              *)

\* Lines 193-200: chosen, the roles of the call without repetitions.
RECURSIVE Chosen(_, _, _)
Chosen(roles, i, acc) ==
    IF i > Len(roles) THEN acc
    ELSE LET r == RoleKey(roles[i])
         IN IF \E j \in DOMAIN acc : acc[j] = r
            THEN Chosen(roles, i + 1, acc)
            ELSE Chosen(roles, i + 1, Append(acc, r))

\* Only the username is validated.
RegisterRaisesUsernameOnly(c) == NormalizeUsername(c.username) = Empty

\* Lines 190-202: the three ValueErrors of register_player.
RegisterRaises(c) ==
    \/ NormalizeUsername(c.username) = Empty
    \/ \E i \in DOMAIN c.roles : RoleKey(c.roles[i]) = NoRole
    \/ Chosen(c.roles, 1, <<>>) = <<>>

\* Lines 207-211: academy and out after the loop over chosen.
RECURSIVE RegisterRoles(_, _, _, _, _)
RegisterRoles(st, u, chosen, i, default_tier) ==
    IF i > Len(chosen) THEN st
    ELSE LET r == chosen[i]
             tier == IF u \in DictKeys(st.academy[r])
                     THEN DictGet(st.academy[r], u) ELSE default_tier
         IN RegisterRoles([academy |-> [st.academy EXCEPT ![r] = DictSet(@, u, tier)],
                           out     |-> DictSet(st.out, r, tier)],
                          u, chosen, i + 1, default_tier)

Registered(a, c) ==
    RegisterRoles([academy |-> a, out |-> <<>>], NormalizeUsername(c.username),
                  Chosen(c.roles, 1, <<>>), 1, c.default_tier)

\* Lines 223-230.
Removed(a, c) == \E r \in RoleSet : NormalizeUsername(c.username) \in DictKeys(a[r])

Unregistered(a, c) == [r \in RoleSet |-> DictPop(a[r], NormalizeUsername(c.username))]

NoResult == [out |-> <<>>, removed |-> FALSE, teams |-> <<>>]

\* The code of a call before "async with _ACADEMY_LOCK": register_player
\* raises ValueError on a blank username, an unknown role or no role at all,
\* unregister_player returns False on a blank username.
CallEnter(p) ==
    /\ cpc[p] = "call"
    /\ cpc' = [cpc EXCEPT ![p] =
                  IF calls[p].op = "register" /\ RegisterRaises(calls[p]) THEN "raised"
                  ELSE IF calls[p].op = "unregister"
                          /\ NormalizeUsername(calls[p].username) = Empty THEN "returned"
                  ELSE "waiting"]
    /\ UNCHANGED <<file, engineVars, calls, local, lock, acquired, file0, teamsFile,
                   snapshot, result>>

\* The call enters the lock although another call holds it.
AcquireHeld(p) ==
    /\ cpc[p] = "waiting"
    /\ lock' = p
    /\ cpc' = [cpc EXCEPT ![p] = "locked"]
    /\ acquired' = Append(acquired, p)
    /\ snapshot' = [snapshot EXCEPT ![p] = file]
    /\ UNCHANGED <<file, engineVars, calls, local, file0, teamsFile, result>>

\* async with _ACADEMY_LOCK: the call goes on once the lock is free.
Acquire(p) ==
    /\ cpc[p] = "waiting"
    /\ lock = 0
    /\ lock' = p
    /\ cpc' = [cpc EXCEPT ![p] = "locked"]
    /\ acquired' = Append(acquired, p)
    /\ snapshot' = [snapshot EXCEPT ![p] = file]
    /\ UNCHANGED <<file, engineVars, calls, local, file0, teamsFile, result>>

\* academy = load_academy()
LoadLocked(p) ==
    /\ cpc[p] = "locked"
    /\ IF LoadRaises(file)
       THEN /\ cpc' = [cpc EXCEPT ![p] = "raised"]
            /\ lock' = 0
            /\ UNCHANGED local
       ELSE /\ cpc' = [cpc EXCEPT ![p] = "loaded"]
            /\ local' = [local EXCEPT ![p] = LoadAcademy(file)]
            /\ UNCHANGED lock
    /\ UNCHANGED <<file, engineVars, calls, acquired, file0, teamsFile, snapshot, result>>

\* The file is opened for writing and the lock is given up at once.
BeginSaveUnlocked(p, new) ==
    /\ local' = [local EXCEPT ![p] = new]
    /\ file' = <<>>
    /\ lock' = 0
    /\ cpc' = [cpc EXCEPT ![p] = IF SaveAcademy(new) = <<>> THEN "returned" ELSE "writing"]

\* save_academy(new), first part: an empty roster removes the file and the
\* call returns; otherwise the file is opened for writing, which empties it.
BeginSave(p, new) ==
    /\ local' = [local EXCEPT ![p] = new]
    /\ file' = <<>>
    /\ IF SaveAcademy(new) = <<>>
       THEN lock' = 0 /\ cpc' = [cpc EXCEPT ![p] = "returned"]
       ELSE cpc' = [cpc EXCEPT ![p] = "writing"] /\ UNCHANGED lock

\* register_player, lines 206-212.
RegisterSave(p) ==
    /\ cpc[p] = "loaded"
    /\ calls[p].op = "register"
    /\ LET st == Registered(local[p], calls[p])
       IN /\ BeginSave(p, st.academy)
          /\ result' = [result EXCEPT ![p].out = st.out]
    /\ UNCHANGED <<engineVars, calls, acquired, file0, teamsFile, snapshot>>

\* unregister_player, lines 223-233: the roster is saved only when the
\* player was found.
UnregisterSave(p) ==
    /\ cpc[p] = "loaded"
    /\ calls[p].op = "unregister"
    /\ IF Removed(local[p], calls[p])
       THEN /\ BeginSave(p, Unregistered(local[p], calls[p]))
            /\ result' = [result EXCEPT ![p].removed = TRUE]
       ELSE /\ cpc' = [cpc EXCEPT ![p] = "returned"]
            /\ lock' = 0
            /\ UNCHANGED <<file, local, result>>
    /\ UNCHANGED <<engineVars, calls, acquired, file0, teamsFile, snapshot>>

\* save_academy, second part: the text is written, the call returns and
\* leaves the lock.
FinishSave(p) ==
    /\ cpc[p] = "writing"
    /\ file' = SaveAcademy(local[p])
    /\ lock' = 0
    /\ cpc' = [cpc EXCEPT ![p] = "returned"]
    /\ UNCHANGED <<engineVars, calls, local, acquired, file0, teamsFile, snapshot, result>>

\* create_teams_from_file, lines 527-529.
CreateTeams(p) ==
    /\ cpc[p] = "loaded"
    /\ calls[p].op = "create_teams"
    /\ result' = [result EXCEPT ![p].teams = GenerateTeams(AsArgument(local[p]))]
    /\ teamsFile' = SaveTeams(result'[p].teams)
    /\ lock' = 0
    /\ cpc' = [cpc EXCEPT ![p] = "returned"]
    /\ UNCHANGED <<file, engineVars, calls, local, acquired, file0, snapshot>>

NextCalls ==
    \/ \E p \in DOMAIN calls : CallEnter(p)
    \/ \E p \in DOMAIN calls : Acquire(p)
    \/ \E p \in DOMAIN calls : LoadLocked(p)
    \/ \E p \in DOMAIN calls : RegisterSave(p)
    \/ \E p \in DOMAIN calls : UnregisterSave(p)
    \/ \E p \in DOMAIN calls : FinishSave(p)
    \/ \E p \in DOMAIN calls : CreateTeams(p)

\* The calls of the model.  players.yaml holds one player per role, or it
\* does not exist; NewUser is not registered, BaseUser(1) is the Goalkeeper
\* of the file.
MaxCalls == 3

NewUser == Lower(1)
BaseUser(i) == Lower(10 + i)
BaseTier(i) == IF i = 1 THEN 1 ELSE 2

BaseFile ==
    [i \in 1..Len(ROLES) |-> << <<i, "exact">>, << <<BaseUser(i), IntTier(BaseTier(i))>> >> >>]

RegisterCall(u, roles) ==
    [op |-> "register", username |-> u, roles |-> roles, default_tier |-> DefaultTier]
UnregisterCall(u) ==
    [op |-> "unregister", username |-> u, roles |-> <<>>, default_tier |-> DefaultTier]
CreateTeamsCall ==
    [op |-> "create_teams", username |-> Empty, roles |-> <<>>, default_tier |-> DefaultTier]

CallMenu ==
    << RegisterCall(NewUser, << <<1, "exact">> >>),
       RegisterCall(<<1, "padded">>, << <<5, "exact">>, <<1, "folded">>, <<5, "exact">> >>),
       RegisterCall(BaseUser(1), << <<1, "exact">>, <<2, "exact">> >>),
       RegisterCall(NewUser, << <<1, "exact">>, <<0, "exact">> >>),
       RegisterCall(<<0, "padded">>, << <<1, "exact">> >>),
       RegisterCall(NewUser, <<>>),
       UnregisterCall(NewUser),
       UnregisterCall(BaseUser(1)),
       UnregisterCall(<<0, "padded">>),
       CreateTeamsCall >>

\* Up to MaxCalls calls are under way at once.  Which call is which does not
\* matter, so they are taken in the order of the menu.
InitCalls ==
    /\ \E ix \in [1..MaxCalls -> 1..Len(CallMenu)] :
          /\ \A i, j \in 1..MaxCalls : i < j => ix[i] <= ix[j]
          /\ calls = [p \in 1..MaxCalls |-> CallMenu[ix[p]]]
    /\ file \in {<<>>, BaseFile}
    /\ file0 = file
    /\ cpc = [p \in 1..MaxCalls |-> "call"]
    /\ local = [p \in 1..MaxCalls |-> NoAssigned]
    /\ lock = 0
    /\ acquired = <<>>
    /\ teamsFile = NoTeamsFile
    /\ snapshot = [p \in 1..MaxCalls |-> <<>>]
    /\ result = [p \in 1..MaxCalls |-> NoResult]
    /\ academy = NoAssigned
    /\ hashOrder = {}
    /\ pc = "idle"
    /\ InitLocals

SpecCalls == InitCalls /\ [][NextCalls]_vars

\* Calls that spell the Goalkeeper of the file, BaseUser(1), in upper case.
CaseMenu ==
    << RegisterCall(Upper(11), << <<1, "exact">> >>),
       RegisterCall(BaseUser(1), << <<1, "exact">> >>),
       UnregisterCall(Upper(11)),
       CreateTeamsCall >>

InitCallsCase ==
    /\ \E ix \in [1..MaxCalls -> 1..Len(CaseMenu)] :
          /\ \A i, j \in 1..MaxCalls : i < j => ix[i] <= ix[j]
          /\ calls = [p \in 1..MaxCalls |-> CaseMenu[ix[p]]]
    /\ file \in {<<>>, BaseFile}
    /\ file0 = file
    /\ cpc = [p \in 1..MaxCalls |-> "call"]
    /\ local = [p \in 1..MaxCalls |-> NoAssigned]
    /\ lock = 0
    /\ acquired = <<>>
    /\ teamsFile = NoTeamsFile
    /\ snapshot = [p \in 1..MaxCalls |-> <<>>]
    /\ result = [p \in 1..MaxCalls |-> NoResult]
    /\ academy = NoAssigned
    /\ hashOrder = {}
    /\ pc = "idle"
    /\ InitLocals

SpecCallsCase == InitCallsCase /\ [][NextCalls]_vars

----------------------------------------------------------------------------
(* The roster as the caller wrote it, read off the argument without the     *)
(* engine's own normalisation.  Used for rosters whose names are already    *)
(* canonical and whose tiers are ints.                                      *)

Done == pc = "done"

EligibleIn(r) == {academy[r][i][1] : i \in DOMAIN academy[r]}

InputTier(r, u) ==
    (CHOOSE e \in {academy[r][i] : i \in DOMAIN academy[r]} : e[1] = u)[2][2]

InputPlayers == UNION {EligibleIn(r) : r \in RoleSet}

PositiveTiers ==
    \A r \in RoleSet : \A i \in DOMAIN academy[r] :
        academy[r][i][2][1] = "int" /\ academy[r][i][2][2] >= 1

KSubsets(S, n) == {T \in SUBSET S : Cardinality(T) = n}

\* Roles i..5 can each take n players outside used, all different.
RECURSIVE CanFill(_, _, _)
CanFill(i, used, n) ==
    IF i > Len(ROLES) THEN TRUE
    ELSE \E s \in KSubsets(EligibleIn(ROLES[i]) \ used, n) : CanFill(i + 1, used \cup s, n)

RECURSIVE SumTiers(_, _)
SumTiers(r, s) ==
    IF s = {} THEN 0
    ELSE LET u == CHOOSE x \in s : TRUE IN InputTier(r, u) + SumTiers(r, s \ {u})

MinOf(S) == CHOOSE m \in S : \A x \in S : m <= x

\* Least tier sum of n players for each of the roles i..5, outside used;
\* INF or more when there is no such choice.
RECURSIVE BestCost(_, _, _)
BestCost(i, used, n) ==
    IF i > Len(ROLES) THEN 0
    ELSE LET costs == {SumTiers(ROLES[i], s) + BestCost(i + 1, used \cup s, n) :
                          s \in KSubsets(EligibleIn(ROLES[i]) \ used, n)}
         IN IF costs = {} THEN INF ELSE MinOf(costs)

Slots == {<<i, r>> : i \in 1..Len(teams), r \in RoleSet}

SlotPlayer(sl) == teams[sl[1]][sl[2]][1]

\* The returned teams are complete, use eligible players and use none twice.
TeamsValid ==
    /\ \A i \in 1..Len(teams) : DOMAIN teams[i] = RoleSet
    /\ \A sl \in Slots : SlotPlayer(sl) \in EligibleIn(sl[2])
    /\ \A s1, s2 \in Slots : s1 # s2 => SlotPlayer(s1) # SlotPlayer(s2)

RECURSIVE SumSeq(_, _)
SumSeq(f, S) ==
    IF S = {} THEN 0
    ELSE LET x == CHOOSE y \in S : TRUE IN f[x] + SumSeq(f, S \ {x})

\* Tier sum of the returned teams, by the tiers of the roster.
TeamsCost ==
    SumSeq([sl \in Slots |-> IF SlotPlayer(sl) \in EligibleIn(sl[2])
                             THEN InputTier(sl[2], SlotPlayer(sl)) ELSE INF], Slots)

UpperBoundOfRoster ==
    Min2(Cardinality(InputPlayers) \div 5,
         MinOf({Cardinality(EligibleIn(r)) : r \in RoleSet}))

----------------------------------------------------------------------------
(* Claims *)

\* C1: for a roster with positive integer tiers the returned teams are a
\* valid assignment of k = len(teams) complete, player-disjoint teams, and no
\* valid assignment of k + 1 such teams exists.
C1_MaxTeamCount ==
    (Done /\ PositiveTiers) =>
        /\ TeamsValid
        /\ CanFill(1, {}, Len(teams))
        /\ ~CanFill(1, {}, Len(teams) + 1)

\* The solver, not the bound, decided: one team is returned although the
\* bound allowed two.
C1_Witness == Done /\ PositiveTiers /\ Len(teams) = 1 /\ upper_k = 2

\* C2: for a roster with positive integer tiers the tier sum of the returned
\* teams is at most the tier sum of every valid assignment of the same number
\* of teams.
C2_MinTierSum ==
    (Done /\ PositiveTiers) => TeamsCost <= BestCost(1, {}, Len(teams))

\* Two teams are returned and a player the roster lists in two roles plays in
\* the role where the roster lists the higher tier for that player.
C2_Witness ==
    /\ Done /\ PositiveTiers /\ Len(teams) = 2
    /\ \E sl \in Slots : \E r \in RoleSet \ {sl[2]} :
          /\ SlotPlayer(sl) \in EligibleIn(r)
          /\ InputTier(r, SlotPlayer(sl)) < InputTier(sl[2], SlotPlayer(sl))

\* C3: no player holds more than one (role, team) slot of the result.
C3_NoPlayerTwice ==
    Done => \A s1, s2 \in Slots : s1 # s2 => SlotPlayer(s1) # SlotPlayer(s2)

\* Two teams are returned and two players of the result are each eligible for
\* the role the other one plays.
C3_Witness ==
    /\ Done /\ Len(teams) = 2
    /\ \E s1, s2 \in Slots :
          /\ s1[2] # s2[2]
          /\ SlotPlayer(s1) \in EligibleIn(s2[2])
          /\ SlotPlayer(s2) \in EligibleIn(s1[2])

\* C4: usernames that differ only in letter case are one player: they count
\* once in the number of distinct players the bound is computed from, and no
\* two slots of the result hold usernames that are equal after case-folding.
C4_CaseFoldedPlayers ==
    /\ pc \in {"search", "flow", "assemble", "done"} /\ InputPlayers # {} =>
          Cardinality(all_users) = Cardinality({Casefold(u) : u \in InputPlayers})
    /\ Done => \A s1, s2 \in Slots :
                  s1 # s2 => Casefold(SlotPlayer(s1)) # Casefold(SlotPlayer(s2))

\* C5: every returned team maps each of the five roles to one (player, tier)
\* pair whose player is in that role of the roster with exactly that tier.
C5_TeamsFromRoster ==
    Done => \A i \in 1..Len(teams) :
               /\ DOMAIN teams[i] = RoleSet
               /\ \A r \in RoleSet :
                     /\ teams[i][r][1] \in EligibleIn(r)
                     /\ teams[i][r][2] = InputTier(r, teams[i][r][1])

\* A team holds a player whom the roster lists in two roles with two tiers.
C5_Witness ==
    /\ Done /\ Len(teams) >= 1
    /\ \E sl \in Slots : \E r \in RoleSet \ {sl[2]} :
          /\ SlotPlayer(sl) \in EligibleIn(r)
          /\ InputTier(r, SlotPlayer(sl)) # InputTier(sl[2], SlotPlayer(sl))

Reverse(q) == [i \in 1..Len(q) |-> q[Len(q) + 1 - i]]

\* The rosters that hold the entries of the argument with the entries of one
\* role, or of every role, in the opposite order.
Reordered ==
    {[academy EXCEPT ![r] = Reverse(@)] : r \in RoleSet}
        \cup {[r \in RoleSet |-> Reverse(academy[r])]}

\* C6: a roster with the same (role, player, tier) entries in another order
\* within a role yields the same teams in the same order.
C6_EntryOrderIrrelevant ==
    Done => \A a \in Reordered : GenerateTeams(a) = teams

C8_TiersPositive ==
    /\ pc # "raised"
    /\ \A r \in RoleSet : \A i \in DOMAIN normalized[r] : normalized[r][i][2] >= 1
    /\ file # <<>> /\ pc # "load" =>
          \A r \in RoleSet : \A i \in DOMAIN academy[r] : academy[r][i][2][2] >= 1

\* C9: the result never has more teams than min(distinct players div 5,
\* smallest role); when that bound is 0 the result is empty and
\* _min_cost_flow is never called.
C9_UpperBound ==
    /\ Done => Len(teams) <= UpperBoundOfRoster
    /\ UpperBoundOfRoster <= 0 => solverCalls = 0 /\ (Done => teams = <<>>)

\* One role holds a single player, every other role at least two and the
\* roster at least ten players: one team is returned.
C9_Witness ==
    /\ Done /\ Len(teams) = 1
    /\ Cardinality(InputPlayers) >= 10
    /\ \E r \in RoleSet :
          /\ Cardinality(EligibleIn(r)) = 1
          /\ \A q \in RoleSet \ {r} : Cardinality(EligibleIn(q)) >= 2

\* C10: with a role that has no eligible player the call does not raise and
\* returns the empty list.
C10_EmptyRole ==
    (\E r \in RoleSet : EligibleIn(r) = {}) =>
        /\ pc # "raised"
        /\ Done => teams = <<>>

\* One role is empty and every other role holds at least two players.
C10_Witness ==
    /\ Done /\ teams = <<>>
    /\ \E r \in RoleSet :
          /\ EligibleIn(r) = {}
          /\ \A q \in RoleSet \ {r} : Cardinality(EligibleIn(q)) >= 2

\* Every role of the roster holds exactly two entries and every tier is 2.
TwoPerRoleAllTier2 ==
    /\ \A r \in RoleSet : Len(academy[r]) = 2 /\ Cardinality(EligibleIn(r)) = 2
    /\ \A r \in RoleSet : \A u \in EligibleIn(r) : InputTier(r, u) = 2

\* Two teams of tier sum 20; in every role team 1 holds the player with the
\* smaller case-folded username and team 2 the other one.
TwoTeamsByUsername ==
    /\ Len(teams) = 2
    /\ TeamsCost = 20
    /\ \A r \in RoleSet :
          /\ {teams[1][r][1], teams[2][r][1]} = EligibleIn(r)
          /\ Casefold(teams[1][r][1]) < Casefold(teams[2][r][1])

\* C11 as stated: whenever every role has exactly two eligible players and
\* all tiers equal 2, generate_teams returns exactly 2 teams of total tier
\* cost 20, team 1 holding in every role the player with the smaller
\* case-folded username.
C11_TwoPerRole ==
    (Done /\ TwoPerRoleAllTier2) => TwoTeamsByUsername

\* C11, amended: the same whenever, in addition, no player is eligible for
\* two roles, that is the roster holds ten players that differ after
\* case-folding.
C11_TwoPerRoleTenPlayers ==
    (Done /\ TwoPerRoleAllTier2
          /\ Cardinality({Casefold(u) : u \in InputPlayers}) = 10)
        => TwoTeamsByUsername

\* The call has returned for ten players of tier 2, and some role lists its
\* two players with the greater username first.
C11_Witness ==
    /\ Done /\ TwoPerRoleAllTier2 /\ Cardinality(InputPlayers) = 10
    /\ Len(teams) = 2
    /\ \E r \in RoleSet : Casefold(academy[r][1][1]) > Casefold(academy[r][2][1])

\* <<tier, case-folded username>> of the player of role r in team i.
TeamKey(i, r) == <<teams[i][r][2], Casefold(teams[i][r][1])>>

\* C12: in the result, for every role the (tier, case-folded username) of
\* the role's player does not decrease from team 1 to team k, so that team i
\* holds the i-th of the role's assigned players in the order of tier, then
\* username.
C12_TeamsSortedPerRole ==
    Done => \A r \in RoleSet : \A i, j \in 1..Len(teams) :
                i < j => KeyLessEq(TeamKey(i, r), TeamKey(j, r))

\* Two teams are returned and in some role the player of team 1 has the
\* greater username and the smaller tier: the tier decided, against the
\* order of the usernames and of the player nodes.
C12_Witness ==
    /\ Done /\ Len(teams) = 2
    /\ \E r \in RoleSet :
          /\ TeamKey(1, r)[1] < TeamKey(2, r)[1]
          /\ TeamKey(1, r)[2] > TeamKey(2, r)[2]

\* The content of players.yaml after the calls of the sequence order, taken
\* one at a time starting from the content f.
ApplyCall(f, c) ==
    IF c.op = "register" THEN SaveAcademy(Registered(LoadAcademy(f), c).academy)
    ELSE IF c.op = "unregister" /\ Removed(LoadAcademy(f), c)
         THEN SaveAcademy(Unregistered(LoadAcademy(f), c))
    ELSE f

RECURSIVE ApplyCalls(_, _, _)
ApplyCalls(f, order, n) ==
    IF n = 0 THEN f ELSE ApplyCall(ApplyCalls(f, order, n - 1), calls[order[n]])

InsideLock == {p \in DOMAIN calls : cpc[p] \in {"locked", "loaded", "writing"}}

AllReturned == calls # <<>> /\ \A p \in DOMAIN calls : cpc[p] \in {"returned", "raised"}

\* C13: the load-modify-save cycles of register_player and unregister_player
\* calls exclude each other, and whenever no cycle is under way, and so after
\* all calls, players.yaml holds what the calls that have acquired the lock
\* produce when they are applied one at a time in the order of acquisition.
C13_NoLostUpdate ==
    /\ Cardinality(InsideLock) <= 1
    /\ \A p \in InsideLock : lock = p
    /\ InsideLock = {} => file = ApplyCalls(file0, acquired, Len(acquired))

\* All calls have returned, a register_player and an unregister_player call
\* of the same player were among them, and the other order of acquisition
\* would have left another roster.
C13_Witness ==
    /\ AllReturned
    /\ Len(acquired) >= 2
    /\ \E p, q \in DOMAIN calls :
          /\ calls[p].op = "register" /\ calls[q].op = "unregister"
          /\ NormalizeUsername(calls[p].username) = NormalizeUsername(calls[q].username)
          /\ \E i, j \in DOMAIN acquired : acquired[i] = p /\ acquired[j] = q
    /\ file # ApplyCalls(file0, Reverse(acquired), Len(acquired))

\* The position of call p in the order of acquisition.
AcquiredAt(p) == CHOOSE i \in DOMAIN acquired : acquired[i] = p

TeamRequests == {p \in DOMAIN calls : calls[p].op = "create_teams"}

\* Every player of the teams the request p returned is in the role of its
\* slot, with the tier of the slot, in the roster read from content f.
TeamsWithin(p, f) ==
    \A i \in DOMAIN result[p].teams : \A r \in RoleSet :
        LET pick == result[p].teams[i][r]
        IN /\ pick[1] \in DictKeys(LoadAcademy(f)[r])
           /\ pick[2] = DictGet(LoadAcademy(f)[r], pick[1])

\* C14: a create_teams_from_file request that runs among register_player and
\* unregister_player calls finds, when it acquires the lock, players.yaml as
\* the calls that acquired the lock before it leave it when applied one at a
\* time; the file stays so while the request holds the lock; and every player
\* of the teams it returns and writes is stored in that file for the role
\* and with the tier of the slot.
C14_TeamsFromWholeRoster ==
    \A p \in TeamRequests :
        /\ cpc[p] \in {"locked", "loaded", "returned"} =>
              snapshot[p] = ApplyCalls(file0, acquired, AcquiredAt(p) - 1)
        /\ cpc[p] \in {"locked", "loaded"} => file = snapshot[p]
        /\ cpc[p] = "returned" => TeamsWithin(p, snapshot[p])
        /\ cpc[p] = "returned" /\ lock = 0 /\ acquired[Len(acquired)] = p =>
              teamsFile = SaveTeams(result[p].teams)

\* A request has returned a team; a call before it had changed the file, and
\* a call after it has removed a player of the team from the file.
C14_Witness ==
    \E p \in TeamRequests :
        /\ AllReturned
        /\ Len(result[p].teams) >= 1
        /\ snapshot[p] # file0
        /\ ~TeamsWithin(p, file)

\* C15: no step of generate_teams changes the roster it was given, whatever
\* the roster and whether teams or the empty list are returned.  (The one
\* step that assigns the argument is the caller's load_academy, before the
\* call.)
C15_RosterNotMutated ==
    [][pc # "load" => academy' = academy]_vars

\* The call has returned a team for a roster with an entry that the
\* normalisation rewrote (a padded username or a tier that is not an int),
\* and the roster still holds the entry as it was given.
C15_Witness ==
    /\ Done /\ Len(teams) >= 1 /\ file = <<>>
    /\ \E r \in RoleSet : \E i \in DOMAIN academy[r] :
          /\ academy[r][i][1][2] = "padded" \/ academy[r][i][2][1] # "int"
          /\ \A j \in DOMAIN normalized[r] :
                <<normalized[r][j][1], <<"int", normalized[r][j][2]>> >> # academy[r][i]

\* The canonical username: trimmed, whitespace collapsed and case-folded
\* (0 for a blank one).
Canonical(u) == Casefold(NormalizeUsername(u))

\* The normalised entries out hold every canonical username of the raw
\* entries in exactly once, with the tier of the last raw entry of that
\* username (converted as int() or the default does it).
LastWriteWins(in, out, tierOf(_)) ==
    \A i \in DOMAIN in :
        Canonical(in[i][1]) # 0 =>
            LET same == {j \in DOMAIN in : Canonical(in[j][1]) = Canonical(in[i][1])}
                last == CHOOSE j \in same : \A m \in same : m <= j
                kept == {m \in DOMAIN out : Canonical(out[m][1]) = Canonical(in[i][1])}
            IN /\ Cardinality(kept) = 1
               /\ \A m \in kept : tierOf(out[m][2]) = IntOrDefault(in[last][2])

TierOfInt(t) == t
TierOfRaw(t) == t[2]

\* C16: a canonical username that occurs more than once in the input of one
\* role is held once in that role of the normalised roster, with the tier of
\* the later entry, in the roster load_academy returns and in the roster the
\* normalisation of generate_teams builds.
C16_LastWriteWins ==
    /\ pc \in {"search", "flow", "assemble", "done"} =>
          \A r \in RoleSet : LastWriteWins(academy[r], normalized[r], TierOfInt)
    /\ file # <<>> /\ pc \notin {"load", "raised"} =>
          \A i \in DOMAIN file :
              LastWriteWins(file[i][2], academy[RoleKey(file[i][1])], TierOfRaw)

\* The label is one of the five role names in some letter case and spacing.
Recognized(label) == label[1] \in 1..Len(ROLES)

\* The file without the blocks whose label names no role.
RecognizedOnly(f) == SelectSeq(f, LAMBDA b : Recognized(b[1]))

\* C17: a block of the file whose label is not one of the five roles
\* (letter case and spacing aside) is dropped without an error and leaves
\* the blocks of the recognised roles as they are: load_academy fails or
\* returns exactly as it does for the file without such blocks.
C17_UnknownLabelDropped ==
    (file # <<>> /\ pc # "load") =>
        /\ pc = "raised" <=> LoadRaises(RecognizedOnly(file))
        /\ pc # "raised" => academy = AsArgument(LoadAcademy(RecognizedOnly(file)))

\* The file holds a block with a label that names no role, with an entry
\* whose tier cannot be converted, before the Goalkeeper block written in
\* another letter case; the roster was loaded and a team was returned.
C17_Witness ==
    /\ Done /\ Len(teams) >= 1
    /\ \E i, j \in DOMAIN file :
          /\ i < j
          /\ ~Recognized(file[i][1])
          /\ \E m \in DOMAIN file[i][2] : IntRaises(file[i][2][m][2])
          /\ file[j][1] = <<1, "folded">>
          /\ academy["Goalkeeper"] # <<>>

\* The solver has pushed all 5 * k units and the extraction finds, for some
\* role, a number of used role-to-player edges other than k.
ExtractionDefect ==
    /\ pc = "flow"
    /\ flow = Need(k)
    /\ \E r \in RoleSet : Len(Extract(g, players)[r]) # k

\* C18: when the required flow was pushed but the extraction finds for some
\* role a number of used edges different from k, the call aborts; it does
\* not go on to return a result as if k teams were infeasible.
C18_DefectSurfaced ==
    [][ExtractionDefect => pc' = "raised"]_vars

\* The edges the next run of Dijkstra relaxes: the edges with capacity left
\* that leave a node the search reaches, as <<node, edge>>.
RelaxedEdges ==
    LET dist == Dijkstra(g, potential).dist
    IN UNION {{<<v, g[v][ei]>> : ei \in {j \in DOMAIN g[v] : g[v][j].cap > 0}} :
                 v \in {w \in DOMAIN g : dist[w] < INF}}

ReducedCost(v, e) == e.cost + potential[v] - potential[e.to]

\* C19: for a roster with positive tiers, in every round of _min_cost_flow
\* and for every k, every edge with capacity left that Dijkstra relaxes has a
\* reduced cost cost + potential(from) - potential(to) of 0 or more, also
\* once reverse edges with negative cost have appeared.
C19_ReducedCostsNonNegative ==
    (pc = "flow" /\ PositiveTiers) =>
        \A ve \in RelaxedEdges : ReducedCost(ve[1], ve[2]) >= 0

\* A round of the run for k = 2 is about to relax a reverse edge, whose cost
\* is negative.
C19_Witness ==
    /\ pc = "flow" /\ PositiveTiers /\ k = 2 /\ flow < Need(k)
    /\ \E ve \in RelaxedEdges : ve[2].cost < 0

\* C20: every augmentation of _min_cost_flow pushes exactly one unit (the
\* bottleneck of the path is 1), and a run that succeeds for k has made
\* exactly 5 * k augmentations.
C20_UnitAugmentations ==
    [][/\ (pc = "flow" /\ augmentations' # augmentations) =>
              /\ RoundStep(g, potential, flow, Need(k), players).add = 1
              /\ flow' = flow + 1
              /\ augmentations' = augmentations + 1
       /\ (pc = "flow" /\ flow' # flow) => augmentations' # augmentations
       /\ (pc = "flow" /\ pc' = "search") => augmentations = 5 * k
      ]_vars

\* The run for k = 2 has succeeded after ten augmentations, the last of
\* them along a path that took a player back from a role.
C20_Witness ==
    /\ pc = "search" /\ best_k = 2 /\ k = 3
    /\ augmentations = 10
    /\ \E r \in RoleSet : \E i \in DOMAIN academy[r] :
          /\ \A j \in DOMAIN best_assigned[r] : best_assigned[r][j][1] # academy[r][i][1]
          /\ \E q \in RoleSet \ {r} : \E j \in DOMAIN best_assigned[q] :
                best_assigned[q][j][1] = academy[r][i][1]

\* _min_cost_flow(kk) succeeds on the roster of the current call.
FlowSucceeds(kk) == MinCostFlow(normalized, SortedPlayers(all_users), kk)[1]

\* C21: for every roster and every k >= 2, if _min_cost_flow(k) succeeds
\* then _min_cost_flow(k - 1) succeeds.
C21_FeasibilityMonotonic ==
    (pc = "search" /\ k = 1) =>
        \A kk \in 2..(upper_k + 1) : FlowSucceeds(kk) => FlowSucceeds(kk - 1)

\* C22: the search calls _min_cost_flow for k = 1, 2, ... in this order,
\* each time on a network built anew, flow 0 and potentials 0; it makes no
\* call after a call has failed or after k = upper_k; and the teams returned
\* are assembled from the assignment of the last k that succeeded, which is
\* the k before the first one that fails.
C22_SearchOrder ==
    /\ [](Done /\ upper_k >= 1 =>
            /\ \A kk \in 1..best_k : FlowSucceeds(kk)
            /\ best_k <= upper_k
            /\ best_k < upper_k => ~FlowSucceeds(best_k + 1) /\ solverCalls = best_k + 1
            /\ best_k = upper_k => solverCalls = upper_k
            /\ teams = IF best_k = 0 THEN <<>>
                       ELSE BuildTeams(MinCostFlow(normalized, players, best_k)[2], best_k))
    /\ [][/\ (pc = "search" /\ pc' = "flow") =>
                /\ k' = k /\ k = solverCalls + 1 /\ k = best_k + 1
                /\ solverCalls' = k
                /\ g' = BuildNetwork(normalized, players', k)
                /\ flow' = 0
                /\ \A v \in DOMAIN potential' : potential'[v] = 0
          /\ solverCalls' # solverCalls => (pc = "search" /\ pc' = "flow")
          /\ (pc = "flow" /\ pc' = "assemble") => best_k' = best_k /\ k' = k
          /\ pc \in {"assemble", "done"} => solverCalls' = solverCalls /\ best_k' = best_k
         ]_vars

\* The search has stopped at the failure of k = 2, with upper_k = 2, after
\* two solver calls, and the team of k = 1 was returned.
C22_Witness ==
    /\ Done /\ upper_k = 2 /\ best_k = 1 /\ k = 2 /\ solverCalls = 2
    /\ Len(teams) = 1 /\ flow < Need(2)

\* C23: generate_teams terminates for every roster and ends by returning a
\* list of teams, not by raising: no run reaches a raised error, and the
\* steps are bounded because every iteration of the augmentation loop that
\* does not break raises the flow, which never exceeds 5 * k, and every
\* solver call that succeeds raises k, which never exceeds upper_k + 1.
\* (A Dijkstra round is one evaluation of Dijkstra.)
C23_TerminatesWithTeams ==
    /\ [](pc # "raised")
    /\ [](pc = "flow" => flow <= Need(k) /\ k <= upper_k)
    /\ [](pc = "search" => k <= upper_k + 1)
    /\ [][/\ (pc = "flow" /\ pc' = "flow") => flow' > flow
          /\ (pc = "flow" /\ pc' = "search") => k' > k
          /\ (pc = "search" /\ pc' = "flow") => k' = k
         ]_vars

\* Least tier sum of one player for each of the roles i..5 of the normalised
\* roster, outside used; INF or more when there is no such choice.
RECURSIVE MinTeamSum(_, _, _)
MinTeamSum(norm, i, used) ==
    IF i > Len(ROLES) THEN 0
    ELSE LET costs == {DictGet(norm[ROLES[i]], u) + MinTeamSum(norm, i + 1, used \cup {u}) :
                          u \in DictKeys(norm[ROLES[i]]) \ used}
         IN IF costs = {} THEN INF ELSE MinOf(costs)

TeamSum(team) == SumSeq([r \in RoleSet |-> team[r][2]], RoleSet)

\* The tier sum of the picks of _min_cost_flow(1), INF when it fails.
FlowCostOfOne ==
    LET res == MinCostFlow(normalized, SortedPlayers(all_users), 1)
    IN IF res[1] THEN SumSeq([r \in RoleSet |-> res[2][r][1][2]], RoleSet) ELSE INF

\* C24: for a roster with positive tiers, _best_team_assignment without
\* banned users returns None exactly when generate_teams returns no team,
\* and otherwise the tier sum of its team is the least tier sum of one
\* complete team, which is the cost of the flow solution at k = 1.
C24_ReferenceAgrees ==
    Done /\ PositiveTiers =>
        LET ref == BestTeamAssignment(academy, {})
        IN /\ ref.found <=> teams # <<>>
           /\ ref.found =>
                 /\ TeamSum(ref.best) = MinTeamSum(normalized, 1, {})
                 /\ TeamSum(ref.best) = FlowCostOfOne

\* The roster with the same players in the same roles, every tier set to t.
Retiered(a, t) ==
    [r \in RoleSet |-> [i \in DOMAIN a[r] |-> <<a[r][i][1], IntTier(t)>>]]

\* C25: the number of teams depends on who is eligible for which role and
\* not on the tier values: the roster with the same players in the same
\* roles and any other integer tiers, zero and negative ones included,
\* gives the same number of teams.
C25_TeamCountIgnoresTiers ==
    Done => \A t \in SignedTiers : Len(teams) = Len(GenerateTeams(Retiered(academy, t)))

\* The capacities of an edge and of its twin, together.
PairCap(v, ei) == g[v][ei].cap + g[g[v][ei].to][g[v][ei].rev].cap

\* The capacity the pair was created with: k between the source and a
\* role, 1 between a role and a player and between a player and the sink.
OriginalCap(v, ei) == IF v = source \/ g[v][ei].to = source THEN k ELSE 1

\* Units that arrive at node v over the edges from the nodes in From: the
\* capacities of the twins that v holds towards those nodes.
Inflow(v, From) ==
    SumSeq([ei \in DOMAIN g[v] |-> IF g[v][ei].to \in From THEN g[v][ei].cap ELSE 0],
           DOMAIN g[v])

PlayerNodes == player_offset..(Sink(players) - 1)

\* C26: in every state of _min_cost_flow, before and after any number of
\* augmentations, no residual capacity is negative, the capacities of an
\* edge and its twin sum to the capacity the edge was created with, every
\* player carries at most one unit and every role at most k units, and the
\* flow counter is the flow that arrives at the sink.
C26_FlowInvariant ==
    pc = "flow" =>
        /\ \A v \in DOMAIN g : \A ei \in DOMAIN g[v] :
              g[v][ei].cap >= 0 /\ PairCap(v, ei) = OriginalCap(v, ei)
        /\ \A v \in PlayerNodes :
              Inflow(v, 1..Len(ROLES)) <= 1 /\ Inflow(Sink(players), {v}) <= 1
        /\ \A i \in 1..Len(ROLES) : Inflow(i, {source}) <= k
        /\ flow = Inflow(Sink(players), PlayerNodes)

\* A second augmentation has been made in a call with k = 2.
C26_Witness ==
    pc = "flow" /\ k = 2 /\ augmentations >= 2 /\ flow >= 2

\* A register_player call with a blank username, without roles, or with
\* some label that names no role.
InvalidRegister(c) ==
    /\ c.op = "register"
    /\ \/ c.username[1] = 0
       \/ c.roles = <<>>
       \/ \E i \in DOMAIN c.roles : ~Recognized(c.roles[i])

\* C27: register_player with a label that names no role raises before the
\* roster is read and leaves the stored roster as it is, also when other
\* labels of the call are valid; likewise with an empty username or no
\* roles.  Such a call never takes the lock, never loads, returns nothing,
\* and its only step is the raise, which changes neither file nor lock.
C27_InvalidRegisterRaises ==
    /\ [](\A p \in DOMAIN calls : InvalidRegister(calls[p]) =>
             /\ cpc[p] \in {"call", "raised"}
             /\ \A i \in DOMAIN acquired : acquired[i] # p
             /\ local[p] = NoAssigned /\ snapshot[p] = <<>> /\ result[p] = NoResult)
    /\ [][\A p \in DOMAIN calls : InvalidRegister(calls[p]) /\ cpc'[p] # cpc[p] =>
             cpc'[p] = "raised" /\ file' = file /\ lock' = lock]_vars

\* Three calls have raised: one with a valid and an unknown label, one with
\* a blank username, one without roles; the roster is the one of the start.
C27_Witness ==
    /\ file = BaseFile
    /\ \E p, q, s \in DOMAIN calls :
          /\ cpc[p] = "raised" /\ cpc[q] = "raised" /\ cpc[s] = "raised"
          /\ calls[p].username = NewUser
          /\ \E i, j \in DOMAIN calls[p].roles :
                Recognized(calls[p].roles[i]) /\ ~Recognized(calls[p].roles[j])
          /\ calls[q].username[1] = 0
          /\ calls[s].op = "register" /\ calls[s].roles = <<>>

\* The register_player calls that have returned.
RegisterReturned == {p \in DOMAIN calls : calls[p].op = "register" /\ cpc[p] = "returned"}

\* The roles a call names.
NamedRoles(c) == {ROLES[c.roles[i][1]] : i \in {j \in DOMAIN c.roles : Recognized(c.roles[j])}}

\* Call q took the lock right after call p.
RightAfter(p, q) ==
    \E i \in DOMAIN acquired : i < Len(acquired) /\ acquired[i] = p /\ acquired[i + 1] = q

\* The tiers a role's entries hold for the player u, and the entries of the
\* other players; a player is a canonical username.
StoredTiers(users, u) ==
    {users[i][2] : i \in {j \in DOMAIN users : Canonical(users[j][1]) = Canonical(u)}}

OtherPlayers(users, u) == SelectSeq(users, LAMBDA e : Canonical(e[1]) # Canonical(u))

\* C28: register_player never overwrites a stored tier: in a role the
\* player holds the stored tier is kept and returned, in a new role the
\* player gets default_tier, and nothing else of the roster changes.  The
\* same call repeated right away stores the same roster and returns the
\* same result.
C28_RegisterKeepsTier ==
    /\ \A p \in RegisterReturned :
          LET before == LoadAcademy(snapshot[p])
              u == calls[p].username
          IN \A r \in RoleSet :
                /\ OtherPlayers(local[p][r], u) = OtherPlayers(before[r], u)
                /\ IF r \in NamedRoles(calls[p])
                   THEN LET held == StoredTiers(before[r], u)
                            now == IF held # {} THEN held ELSE {calls[p].default_tier}
                        IN /\ StoredTiers(local[p][r], u) = now
                           /\ r \in DictKeys(result[p].out)
                           /\ DictGet(result[p].out, r) \in now
                   ELSE /\ local[p][r] = before[r]
                        /\ r \notin DictKeys(result[p].out)
    /\ \A p, q \in RegisterReturned :
          calls[p] = calls[q] /\ RightAfter(p, q) =>
              /\ SaveAcademy(local[q]) = SaveAcademy(local[p])
              /\ result[q] = result[p]

\* The unregister_player calls that have returned.
UnregisterReturned ==
    {p \in DOMAIN calls : calls[p].op = "unregister" /\ cpc[p] = "returned"}

\* The player of call p is in some role of the roster the call found.
HeldBefore(p) ==
    \E r \in RoleSet : StoredTiers(LoadAcademy(snapshot[p])[r], calls[p].username) # {}

\* C29: unregister_player removes the player from every role and returns
\* True exactly when the player was in at least one role; the entries of
\* the other players stay as they are; when the player was in no role the
\* call returns without writing the roster.
C29_UnregisterRemovesPlayer ==
    /\ [](\A p \in UnregisterReturned :
             /\ result[p].removed <=> HeldBefore(p)
             /\ \A r \in RoleSet :
                   /\ StoredTiers(local[p][r], calls[p].username) = {}
                   /\ OtherPlayers(local[p][r], calls[p].username)
                         = OtherPlayers(LoadAcademy(snapshot[p])[r], calls[p].username))
    /\ [][\A p \in DOMAIN calls :
             calls[p].op = "unregister" /\ cpc[p] = "loaded" /\ cpc'[p] # "loaded"
             /\ ~HeldBefore(p) => file' = file /\ cpc'[p] = "returned"]_vars

\* The step in which the create_teams_from_file call p returns.
CreateReturns(p) ==
    calls[p].op = "create_teams" /\ cpc[p] = "loaded" /\ cpc'[p] = "returned"

\* C30: after a create_teams_from_file call the teams store holds exactly
\* the teams the call returned: block i is team i of the result, for i from
\* 1 to the number of teams, and nothing else, so that an empty result
\* leaves a store without teams; the store changes in no other step, and no
\* step of the call changes the players store.
C30_TeamsStoreIsResult ==
    [][/\ \A p \in DOMAIN calls :
             /\ calls[p].op = "create_teams" /\ cpc'[p] # cpc[p] => file' = file
             /\ CreateReturns(p) =>
                   /\ teamsFile'.exists
                   /\ DOMAIN teamsFile'.blocks = 1..Len(result'[p].teams)
                   /\ \A i \in DOMAIN teamsFile'.blocks : \A r \in RoleSet :
                         /\ ~teamsFile'.blocks[i][r].dash
                         /\ teamsFile'.blocks[i][r].player = result'[p].teams[i][r][1]
                         /\ teamsFile'.blocks[i][r].tier = result'[p].teams[i][r][2]
       /\ teamsFile' # teamsFile => \E p \in DOMAIN calls : CreateReturns(p)
      ]_vars

\* A request returned one team and a later request, made after the
\* Goalkeeper was unregistered, returned none: the store holds no team.
C30_Witness ==
    /\ teamsFile.exists /\ teamsFile.blocks = <<>>
    /\ \E p, q \in DOMAIN calls :
          /\ calls[p].op = "create_teams" /\ cpc[p] = "returned" /\ Len(result[p].teams) = 1
          /\ calls[q].op = "create_teams" /\ cpc[q] = "returned" /\ result[q].teams = <<>>
          /\ \E i, j \in DOMAIN acquired : i < j /\ acquired[i] = p /\ acquired[j] = q

====
